---- MODULE Spec2Model ----
(***************************************************************************)
(* A model of exam1.py: the FitnessTracker class (activity table, health   *)
(* metric tables, weekly summary), the two visualize functions and the     *)
(* main_dashboard menu loop.                                               *)
(*                                                                         *)
(* Calendar dates are day numbers counted from a Monday, so that the       *)
(* weekday of day d is d % 7 with 0 = Monday and 6 = Sunday, as Python's   *)
(* date.weekday().  A date string "%Y-%m-%d" and a pandas Timestamp are    *)
(* different values that denote a day: [kind |-> "str", day |-> d] and     *)
(* [kind |-> "Timestamp", day |-> d].  A DataFrame is the sequence of its  *)
(* rows.  Distances are in tenths of a kilometre and metric values in      *)
(* tenths of a unit, so that 4.5 km is 45 and 75.2 kg is 752.              *)
(***************************************************************************)
EXTENDS Integers, Sequences, FiniteSets, TLC

VARIABLES
    activities,      \* self.activities: the rows of the activity DataFrame
    health_metrics,  \* self.health_metrics: dict metric name -> rows
    today,           \* what datetime.date.today() returns now
    op,              \* the last call made: its name, arguments, result, output
    pc               \* main_dashboard's position; "api" when the class is used directly

vars == <<activities, health_metrics, today, op, pc>>

----------------------------------------------------------------------------
(* Bounds of the model *)

MaxActs == 3        \* rows of the activity table when the class is used directly
MaxReadings == 2    \* health readings, all metrics together
MaxWeek == 2        \* the clock runs over weeks 0..MaxWeek
MaxMenuLogs == 1    \* rows and readings a user adds through the menu

\* The days of a week the clock is observed on: a Monday and a Sunday.
SampledWeekdays == {0, 6}

Days == {7 * w + wd : w \in 0..MaxWeek, wd \in SampledWeekdays}

\* Arguments of log_activity: (activity_type, duration_min, distance_km).
ActivityArgs == {<<"Running", 30, 45>>, <<"Cycling", 60, 150>>}
\* Arguments of log_activity with distance_km left out.
ActivityArgsDefault == {<<"running", 20>>}

MetricNames == {"Weight_KG", "restingHR_BPM"}
MetricValues == {752, 748}

----------------------------------------------------------------------------
(* Dates *)

\* datetime.date.today().strftime("%Y-%m-%d")
Strftime(d) == [kind |-> "str", day |-> d]

\* pd.to_datetime of one element: a date string or a Timestamp becomes the
\* Timestamp of that day at midnight.
ToDatetime(x) == [kind |-> "Timestamp", day |-> x.day]

\* pd.to_datetime(df['Date']) assigned back to df['Date'].
ConvertDateColumn(df) ==
    [i \in 1..Len(df) |-> [df[i] EXCEPT !.Date = ToDatetime(@)]]

----------------------------------------------------------------------------
(* FitnessTracker.log_activity *)

CaloriesCaseInsensitive(activity_type, duration_min) ==
    IF activity_type \in {"Running", "running"} THEN duration_min * 10
    ELSE IF activity_type \in {"Cycling", "cycling"} THEN duration_min * 7
    ELSE duration_min * 5

Calories(activity_type, duration_min) ==
    IF activity_type = "Running" THEN duration_min * 10
    ELSE IF activity_type = "Cycling" THEN duration_min * 7
    ELSE duration_min * 5

NewActivity(date, activity_type, duration_min, distance_km) ==
    [Date |-> date,
     ActivityType |-> activity_type,
     DurationMin |-> duration_min,
     CaloriesBurned |-> Calories(activity_type, duration_min),
     DistanceKM |-> distance_km]

log_activity_prepend(df, day, activity_type, duration_min, distance_km) ==
    <<NewActivity(Strftime(day), activity_type, duration_min, distance_km)>>
        \o df

\* The table after log_activity: pd.concat([...], ignore_index=True).
log_activity(df, day, activity_type, duration_min, distance_km) ==
    Append(df, NewActivity(Strftime(day), activity_type, duration_min,
                           distance_km))

----------------------------------------------------------------------------
(* FitnessTracker.log_health_metric *)

log_health_metric_overwrite(hm, day, metric_name, value) ==
    [n \in DOMAIN hm \cup {metric_name} |->
        IF n = metric_name
        THEN <<[Date |-> Strftime(day), Value |-> value]>>
        ELSE hm[n]]

\* The dict after log_health_metric.
log_health_metric(hm, day, metric_name, value) ==
    LET created == [n \in DOMAIN hm \cup {metric_name} |->
                        IF n \in DOMAIN hm THEN hm[n] ELSE <<>>]
    IN  [created EXCEPT
            ![metric_name] = Append(@, [Date |-> Strftime(day),
                                        Value |-> value])]

----------------------------------------------------------------------------
(* FitnessTracker.get_health_data *)

\* self.health_metrics.get(metric_name, pd.DataFrame())
get_health_data(hm, metric_name) ==
    IF metric_name \in DOMAIN hm THEN hm[metric_name] ELSE <<>>

\* What dict.setdefault would do instead of dict.get.
HealthAfterSetdefault(hm, metric_name) ==
    [n \in DOMAIN hm \cup {metric_name} |->
        IF n \in DOMAIN hm THEN hm[n] ELSE <<>>]

\* dict.get leaves the dict as it is.
HealthAfterGet(hm, metric_name) == hm

----------------------------------------------------------------------------
(* FitnessTracker.calculate_weekly_summary *)

RECURSIVE SumColumn(_, _, _)
\* The 'sum' aggregation of one column over the rows idx of df.
SumColumn(df, idx, column) ==
    IF idx = {} THEN 0
    ELSE LET i == CHOOSE j \in idx : TRUE
         IN  df[i][column] + SumColumn(df, idx \ {i}, column)

RECURSIVE MinDay(_, _)
MinDay(df, idx) ==
    LET i == CHOOSE j \in idx : TRUE
    IN  IF idx = {i} THEN df[i].Date.day
        ELSE LET m == MinDay(df, idx \ {i})
             IN  IF df[i].Date.day < m THEN df[i].Date.day ELSE m

RECURSIVE MaxDay(_, _)
MaxDay(df, idx) ==
    LET i == CHOOSE j \in idx : TRUE
    IN  IF idx = {i} THEN df[i].Date.day
        ELSE LET m == MaxDay(df, idx \ {i})
             IN  IF df[i].Date.day > m THEN df[i].Date.day ELSE m

\* Timestamp - Week(weekday=6): the Sunday strictly before d.
MinusWeek(d) == IF d % 7 = 6 THEN d - 7 ELSE d - ((d % 7) + 1)

\* Timestamp + Week(weekday=6): the Sunday strictly after d.
PlusWeek(d) == IF d % 7 = 6 THEN d + 7 ELSE d + (6 - (d % 7))

\* date_range(start=first, end=last, freq='W') for two Sundays.
DateRange(first, last) ==
    [i \in 1..((last - first) \div 7 + 1) |-> first + 7 * (i - 1)]

\* _adjust_bin_edges for closed='right': every edge is moved to the last
\* moment of its day, and the last edge is dropped when the edge before it
\* already lies after the latest row.  Rows are dated at midnight, so the
\* moved edge e lies after a row of day v exactly when e >= v.
AdjustBinEdges(binner, last_day) ==
    IF Len(binner) >= 2 /\ binner[Len(binner) - 1] >= last_day
    THEN SubSeq(binner, 1, Len(binner) - 1)
    ELSE binner

InBinLeftClosed(day, l_edge, r_edge) == l_edge <= day /\ day < r_edge

\* generate_bins_dt64 with closed='right': a row falls in the bin of the
\* first (moved) right edge that is not before it.
InBin(day, l_edge, r_edge) == l_edge < day /\ day <= r_edge

ResampleNoEmptyBins(df) ==
    IF Len(df) = 0 THEN <<>>
    ELSE
    LET rows == 1..Len(df)
        binner == AdjustBinEdges(
                      DateRange(MinusWeek(MinDay(df, rows)),
                                PlusWeek(MaxDay(df, rows))),
                      MaxDay(df, rows))
        used == {b \in 1..(Len(binner) - 1) :
                    \E i \in rows :
                        InBin(df[i].Date.day, binner[b], binner[b + 1])}
        nth(k) == CHOOSE b \in used : Cardinality({c \in used : c < b}) = k - 1
    IN  [k \in 1..Cardinality(used) |->
            LET b == nth(k)
                grp == {i \in rows :
                           InBin(df[i].Date.day, binner[b], binner[b + 1])}
            IN  [Date |-> [kind |-> "Timestamp", day |-> binner[b + 1]],
                 DurationMin |-> SumColumn(df, grp, "DurationMin"),
                 CaloriesBurned |-> SumColumn(df, grp, "CaloriesBurned"),
                 DistanceKM |-> SumColumn(df, grp, "DistanceKM")]]

\* df.set_index('Date').resample('W').agg({...: 'sum'}): one row per bin
\* label (labels are the right edges), rows without data included.
Resample(df) ==
    IF Len(df) = 0 THEN <<>>
    ELSE
    LET rows == 1..Len(df)
        binner == AdjustBinEdges(
                      DateRange(MinusWeek(MinDay(df, rows)),
                                PlusWeek(MaxDay(df, rows))),
                      MaxDay(df, rows))
    IN  [b \in 1..(Len(binner) - 1) |->
            LET grp == {i \in rows :
                           InBin(df[i].Date.day, binner[b], binner[b + 1])}
            IN  [Date |-> [kind |-> "Timestamp", day |-> binner[b + 1]],
                 DurationMin |-> SumColumn(df, grp, "DurationMin"),
                 CaloriesBurned |-> SumColumn(df, grp, "CaloriesBurned"),
                 DistanceKM |-> SumColumn(df, grp, "DistanceKM")]]

\* np.mean(df['DurationMin'].to_numpy()): sum / count, which is nan (with a
\* warning, no exception) for an empty array.
NpMean(df) ==
    [nan |-> (Len(df) = 0),
     sum |-> SumColumn(df, 1..Len(df), "DurationMin"),
     count |-> Len(df)]

\* The last line calculate_weekly_summary prints.
AverageLine(df) ==
    [msg |-> "Average duration across all logged activities",
     value |-> NpMean(df)]

----------------------------------------------------------------------------
(* visualize_activity_trends, visualize_progress_over_time *)

\* df.groupby('ActivityType')['DurationMin'].sum()
GroupByActivityType(df) ==
    [t \in {df[i].ActivityType : i \in 1..Len(df)} |->
        SumColumn(df, {i \in 1..Len(df) : df[i].ActivityType = t},
                  "DurationMin")]

\* What visualize_activity_trends(df) shows.
visualize_activity_trends(df) ==
    IF Len(df) = 0
    THEN [msg |-> "Not enough data to visualize activity trends.",
          plotted |-> <<>>]
    ELSE [msg |-> "", plotted |-> GroupByActivityType(df)]

\* The frame after visualize_progress_over_time(df, metric): unless the
\* frame is empty its Date column is replaced by its conversion.
visualize_progress_over_time(df) ==
    IF Len(df) = 0 THEN df ELSE ConvertDateColumn(df)

----------------------------------------------------------------------------
(* The class used directly: a tracker as __init__ leaves it, and any         *)
(* sequence of calls of its methods while the calendar advances.             *)

EmptyDict == [n \in {} |-> <<>>]

\* FitnessTracker.__init__, on any day.
Init ==
    /\ activities = <<>>
    /\ health_metrics = EmptyDict
    /\ today \in Days
    /\ op = [name |-> "__init__"]
    /\ pc = "api"

\* Midnight passes, once or more: the clock only moves forward.
Tick ==
    /\ \E d \in Days : d > today /\ today' = d
    /\ op' = [name |-> "tick"]
    /\ UNCHANGED <<activities, health_metrics, pc>>

LogActivity ==
    /\ Len(activities) < MaxActs
    /\ \E a \in ActivityArgs :
        /\ activities' = log_activity(activities, today, a[1], a[2], a[3])
        /\ op' = [name |-> "log_activity", activity_type |-> a[1],
                  duration_min |-> a[2], distance_km |-> a[3],
                  omitted |-> FALSE]
    /\ UNCHANGED <<health_metrics, today, pc>>

\* log_activity(activity_type, duration_min): distance_km=0 by default.
LogActivityDefault ==
    /\ Len(activities) < MaxActs
    /\ \E a \in ActivityArgsDefault :
        /\ activities' = log_activity(activities, today, a[1], a[2], 0)
        /\ op' = [name |-> "log_activity", activity_type |-> a[1],
                  duration_min |-> a[2], distance_km |-> 0,
                  omitted |-> TRUE]
    /\ UNCHANGED <<health_metrics, today, pc>>

CalculateWeeklySummary ==
    /\ activities' = ConvertDateColumn(activities)
    /\ op' = [name |-> "calculate_weekly_summary",
              ret |-> Resample(ConvertDateColumn(activities)),
              printed |-> AverageLine(ConvertDateColumn(activities)),
              raised |-> FALSE]
    /\ UNCHANGED <<health_metrics, today, pc>>

GetActivityData ==
    /\ op' = [name |-> "get_activity_data", ret |-> activities]
    /\ UNCHANGED <<activities, health_metrics, today, pc>>

\* visualize_activity_trends(tracker.get_activity_data())
VisualizeActivityTrends ==
    /\ op' = [name |-> "visualize_activity_trends",
              shown |-> visualize_activity_trends(activities)]
    /\ UNCHANGED <<activities, health_metrics, today, pc>>

Next ==
    \/ Tick
    \/ LogActivity
    \/ LogActivityDefault
    \/ CalculateWeeklySummary
    \/ GetActivityData
    \/ VisualizeActivityTrends

Spec == Init /\ [][Next]_vars

----------------------------------------------------------------------------
(* The class used directly, health metrics. *)

RECURSIVE TotalReadings(_, _)
TotalReadings(hm, names) ==
    IF names = {} THEN 0
    ELSE LET n == CHOOSE m \in names : TRUE
         IN  Len(hm[n]) + TotalReadings(hm, names \ {n})

LogHealthMetric ==
    /\ \E n \in MetricNames, v \in MetricValues :
        /\ TotalReadings(health_metrics, DOMAIN health_metrics) < MaxReadings
        /\ health_metrics' = log_health_metric(health_metrics, today, n, v)
        /\ op' = [name |-> "log_health_metric", metric_name |-> n,
                  value |-> v]
    /\ UNCHANGED <<activities, today, pc>>

GetHealthData ==
    /\ \E n \in MetricNames :
        /\ health_metrics' = HealthAfterGet(health_metrics, n)
        /\ op' = [name |-> "get_health_data", metric_name |-> n,
                  ret |-> get_health_data(health_metrics, n)]
    /\ UNCHANGED <<activities, today, pc>>

\* visualize_progress_over_time(tracker.get_health_data(n), metric='Value'):
\* the frame passed is the one the dict holds, or a fresh empty one.
VisualizeProgressOverTime ==
    /\ \E n \in MetricNames :
        /\ health_metrics' =
              IF n \in DOMAIN health_metrics
              THEN [health_metrics EXCEPT
                       ![n] = visualize_progress_over_time(@)]
              ELSE health_metrics
        /\ op' = [name |-> "visualize_progress_over_time",
                  metric_name |-> n,
                  msg |-> IF Len(get_health_data(health_metrics, n)) = 0
                          THEN "Not enough data to visualize"
                          ELSE ""]
    /\ UNCHANGED <<activities, today, pc>>

NextHealth ==
    \/ Tick
    \/ LogHealthMetric
    \/ GetHealthData
    \/ VisualizeProgressOverTime

SpecHealth == Init /\ [][NextHealth]_vars

----------------------------------------------------------------------------
(* main_dashboard: the sample data, then the menu loop. *)

\* Rows and readings logged so far.
Logged == Len(activities) + TotalReadings(health_metrics, DOMAIN health_metrics)

\* What the user types where a number is asked for, as its characters.
NumberInputs == {<<"3", "0">>, <<"a", "b">>, <<>>}
TypeInputs == {"Running", "Yoga"}
\* What the user types at the menu prompt.
Choices == {"1", "2", "3", "4", "5", "6", "7", ""}

DigitValue(c) ==
    CASE c = "0" -> 0 [] c = "1" -> 1 [] c = "2" -> 2 [] c = "3" -> 3
      [] c = "4" -> 4 [] c = "5" -> 5 [] c = "6" -> 6 [] c = "7" -> 7
      [] c = "8" -> 8 [] c = "9" -> 9 [] OTHER -> -1

\* Whether float(s) returns; it raises ValueError otherwise.  Of what float
\* accepts, the inputs enumerated here only hold strings of digits.
FloatParses(s) == Len(s) > 0 /\ \A i \in 1..Len(s) : DigitValue(s[i]) >= 0

RECURSIVE Float(_)
\* float(s) for a string of digits.
Float(s) ==
    IF Len(s) = 0 THEN 0
    ELSE 10 * Float(SubSeq(s, 1, Len(s) - 1)) + DigitValue(s[Len(s)])

SampleActivitiesShort(day) ==
    log_activity(log_activity(<<>>, day, "Running", 30, 45),
                 day, "Cycling", 60, 150)

\* The three log_activity calls before the loop.
SampleActivities(day) ==
    log_activity(log_activity(log_activity(<<>>, day, "Running", 30, 45),
                              day, "Cycling", 60, 150),
                 day, "Running", 45, 60)

\* The two log_health_metric calls before the loop.
SampleMetrics(day) ==
    log_health_metric(log_health_metric(EmptyDict, day, "Weight_KG", 752),
                      day, "Weight_KG", 748)

InitDash ==
    /\ activities = <<>>
    /\ health_metrics = EmptyDict
    /\ today \in Days
    /\ op = [name |-> "__init__"]
    /\ pc = "start"

DashSampleData ==
    /\ pc = "start"
    /\ activities' = SampleActivities(today)
    /\ health_metrics' = SampleMetrics(today)
    /\ op' = [name |-> "sample_data"]
    /\ pc' = "menu"
    /\ UNCHANGED today

\* Choice '1'.  float() of the duration, then of the distance; a ValueError
\* is caught nowhere and ends the process.  The sample data is 3 rows and 2
\* readings, hence the 5 in the guard that bounds what the user adds.
MenuLogActivity ==
    /\ pc = "menu"
    /\ Logged < 5 + MaxMenuLogs
    /\ \E act_type \in TypeInputs, duration \in NumberInputs,
          distance \in NumberInputs :
        IF FloatParses(duration) /\ FloatParses(distance)
        THEN /\ activities' = log_activity(activities, today, act_type,
                                           Float(duration), Float(distance))
             /\ op' = [name |-> "menu", choice |-> "1",
                       outcome |-> "logged"]
             /\ pc' = "menu"
        ELSE /\ op' = [name |-> "menu", choice |-> "1",
                       outcome |-> "ValueError"]
             /\ pc' = "crashed"
             /\ UNCHANGED activities
    /\ UNCHANGED <<health_metrics, today>>

\* Choice '2'.
MenuLogMetric ==
    /\ pc = "menu"
    /\ Logged < 5 + MaxMenuLogs
    /\ \E metric_name \in MetricNames, value \in NumberInputs :
        IF FloatParses(value)
        THEN /\ health_metrics' = log_health_metric(health_metrics, today,
                                                    metric_name, Float(value))
             /\ op' = [name |-> "menu", choice |-> "2",
                       outcome |-> "logged"]
             /\ pc' = "menu"
        ELSE /\ op' = [name |-> "menu", choice |-> "2",
                       outcome |-> "ValueError"]
             /\ pc' = "crashed"
             /\ UNCHANGED health_metrics
    /\ UNCHANGED <<activities, today>>

\* Choice '3'.
MenuWeeklySummary ==
    /\ pc = "menu"
    /\ activities' = ConvertDateColumn(activities)
    /\ op' = [name |-> "menu", choice |-> "3", outcome |-> "summary",
              ret |-> Resample(ConvertDateColumn(activities)),
              printed |-> AverageLine(ConvertDateColumn(activities))]
    /\ UNCHANGED <<health_metrics, today, pc>>

\* Choice '4'.
MenuActivityBreakdown ==
    /\ pc = "menu"
    /\ op' = [name |-> "menu", choice |-> "4", outcome |-> "shown",
              shown |-> visualize_activity_trends(activities)]
    /\ UNCHANGED <<activities, health_metrics, today, pc>>

\* Choice '5'.
MenuWeightOverTime ==
    /\ pc = "menu"
    /\ IF Len(get_health_data(health_metrics, "Weight_KG")) # 0
       THEN /\ health_metrics' =
                  [health_metrics EXCEPT
                      !["Weight_KG"] = visualize_progress_over_time(@)]
            /\ op' = [name |-> "menu", choice |-> "5", outcome |-> "shown",
                      msg |-> ""]
       ELSE /\ op' = [name |-> "menu", choice |-> "5", outcome |-> "shown",
                      msg |-> "No weight data logged yet."]
            /\ UNCHANGED health_metrics
    /\ UNCHANGED <<activities, today, pc>>

\* Choice '6'.
MenuExit ==
    /\ pc = "menu"
    /\ op' = [name |-> "menu", choice |-> "6", outcome |-> "exit"]
    /\ pc' = "exited"
    /\ UNCHANGED <<activities, health_metrics, today>>

\* Any other choice.
MenuInvalid ==
    /\ pc = "menu"
    /\ \E choice \in Choices \ {"1", "2", "3", "4", "5", "6"} :
        op' = [name |-> "menu", choice |-> choice, outcome |-> "invalid"]
    /\ UNCHANGED <<activities, health_metrics, today, pc>>

NextDash ==
    \/ Tick
    \/ DashSampleData
    \/ MenuLogActivity
    \/ MenuLogMetric
    \/ MenuWeeklySummary
    \/ MenuActivityBreakdown
    \/ MenuWeightOverTime
    \/ MenuExit
    \/ MenuInvalid

SpecDash == InitDash /\ [][NextDash]_vars

----------------------------------------------------------------------------
(* Properties *)

\* The rate table: calories per minute.
Rate(activity_type) ==
    CASE activity_type = "Running" -> 10
      [] activity_type = "Cycling" -> 7
      [] OTHER -> 5

Last(seq) == seq[Len(seq)]

IsPrefix(s, t) == Len(s) <= Len(t) /\ \A i \in 1..Len(s) : s[i] = t[i]

\* The calendar week (Monday to Sunday) a day lies in.
WeekOf(d) == d \div 7

FirstSundayOnOrAfter(d) == CHOOSE s \in d..(d + 6) : s % 7 = 6

RECURSIVE Total(_, _, _)
\* The sum of a column over the rows idx.
Total(df, idx, column) ==
    IF idx = {} THEN 0
    ELSE LET i == CHOOSE j \in idx : TRUE
         IN  Total(df, idx \ {i}, column) + df[i][column]

Summed(op_) == op_.name = "calculate_weekly_summary"

\* C1: the record a log_activity call appends has caloriesBurned equal to
\* durationMin times the rate of its type: 10 for exactly "Running", 7 for
\* exactly "Cycling", 5 for any other string, case variants included.
C1_CaloriesByRate ==
    [][op'.name = "log_activity" =>
          /\ Len(activities') > 0
          /\ Last(activities').ActivityType = op'.activity_type
          /\ Last(activities').DurationMin = op'.duration_min
          /\ Last(activities').CaloriesBurned
                = op'.duration_min * Rate(op'.activity_type)]_vars

C1_Witness ==
    /\ op.name = "log_activity"
    /\ op.activity_type = "running"
    /\ Last(activities).CaloriesBurned = 100
    /\ \E i \in 1..Len(activities) :
          /\ activities[i].ActivityType = "Running"
          /\ activities[i].CaloriesBurned = 300

\* C2: log_activity(t, d, k) grows the sequence get_activity_data returns by
\* exactly one element, the last one being {date: today, t, d, rate(t)*d, k}
\* with k = 0 when it is left out, also after calculate_weekly_summary has
\* been called.
C2_LastIsLogged ==
    [][/\ op'.name = "log_activity" =>
            /\ Len(activities') = Len(activities) + 1
            /\ Last(activities') =
                  [Date |-> [kind |-> "str", day |-> today],
                   ActivityType |-> op'.activity_type,
                   DurationMin |-> op'.duration_min,
                   CaloriesBurned
                       |-> Rate(op'.activity_type) * op'.duration_min,
                   DistanceKM |-> op'.distance_km]
            /\ op'.omitted => Last(activities').DistanceKM = 0
       /\ op'.name = "get_activity_data" =>
            /\ op'.ret = activities
            /\ activities' = activities]_vars

C2_Witness ==
    /\ op.name = "log_activity"
    /\ Len(activities) >= 2
    /\ activities[1].Date.kind = "Timestamp"
    /\ Last(activities).Date = [kind |-> "str", day |-> today]
    /\ Last(activities) # activities[1]

\* C3: records and readings are never updated or deleted: what was stored
\* before any operation is a prefix of what is stored after it, every field
\* (the date included) unchanged.
C3_NeverUpdated ==
    [][/\ IsPrefix(activities, activities')
       /\ \A n \in DOMAIN health_metrics :
             /\ n \in DOMAIN health_metrics'
             /\ IsPrefix(health_metrics[n], health_metrics'[n])]_vars

\* C4: log_health_metric with a new name creates exactly one sequence, for
\* that name, holding exactly the one reading {date: today, value}; with a
\* name that has n readings it keeps them in order and appends the reading
\* as element n + 1.
C4_MetricAppends ==
    [][op'.name = "log_health_metric" =>
        LET n == op'.metric_name
            reading == [Date |-> [kind |-> "str", day |-> today],
                        Value |-> op'.value]
        IN  /\ DOMAIN health_metrics' = DOMAIN health_metrics \cup {n}
            /\ \A m \in DOMAIN health_metrics \ {n} :
                  health_metrics'[m] = health_metrics[m]
            /\ IF n \in DOMAIN health_metrics
               THEN health_metrics'[n] = health_metrics[n] \o <<reading>>
               ELSE health_metrics'[n] = <<reading>>]_vars

C4_Witness ==
    /\ op.name = "log_health_metric"
    /\ Len(health_metrics[op.metric_name]) = 2
    /\ health_metrics[op.metric_name][1].Value
          # health_metrics[op.metric_name][2].Value
    /\ health_metrics[op.metric_name][1].Date.day < today

\* C5 as stated: the summary has exactly one bucket per distinct week that
\* holds a record, none for a week without records, each with the sums of
\* the three fields over the records of that week.
C5_OneBucketPerWeekWithRecords ==
    Summed(op) =>
        LET rows == 1..Len(activities)
            weeks == {WeekOf(activities[i].Date.day) : i \in rows}
            inWeek(w) == {i \in rows : WeekOf(activities[i].Date.day) = w}
        IN  /\ Len(op.ret) = Cardinality(weeks)
            /\ {WeekOf(op.ret[k].Date.day) : k \in 1..Len(op.ret)} = weeks
            /\ \A k \in 1..Len(op.ret) :
                 \A c \in {"DurationMin", "CaloriesBurned", "DistanceKM"} :
                    op.ret[k][c]
                      = Total(activities, inWeek(WeekOf(op.ret[k].Date.day)), c)

\* C5 as amended: the summary has exactly one bucket per calendar week from
\* the week of the earliest record to the week of the latest record, weeks
\* without records included (their totals are 0), each with the sums of the
\* three fields over the records of that week.
C5_OneBucketPerWeekInRange ==
    Summed(op) /\ Len(activities) > 0 =>
        LET rows == 1..Len(activities)
            weeks == {WeekOf(activities[i].Date.day) : i \in rows}
            first == CHOOSE w \in weeks : \A v \in weeks : w <= v
            last == CHOOSE w \in weeks : \A v \in weeks : v <= w
            inWeek(w) == {i \in rows : WeekOf(activities[i].Date.day) = w}
        IN  /\ Len(op.ret) = last - first + 1
            /\ \A k \in 1..Len(op.ret) :
                 /\ WeekOf(op.ret[k].Date.day) = first + k - 1
                 /\ \A c \in {"DurationMin", "CaloriesBurned", "DistanceKM"} :
                       op.ret[k][c] = Total(activities, inWeek(first + k - 1), c)

C5_Witness ==
    /\ Summed(op)
    /\ Len(op.ret) = 3
    /\ op.ret[2].DurationMin = 0
    /\ \E k \in {1, 3} : op.ret[k].DurationMin = 30 + 60

\* C6: calculate_weekly_summary on an empty activity collection returns an
\* empty sequence, raises nothing, skips the mean and reports "no data".
C6_EmptySummaryNoData ==
    Summed(op) /\ Len(activities) = 0 =>
        /\ op.ret = <<>>
        /\ ~op.raised
        /\ op.printed.msg = "no data"

\* C7: get_health_data of a never-logged name returns an empty sequence and
\* leaves the set of metric names with a stored sequence as it was.
C7_MissingMetricEmpty ==
    [][op'.name = "get_health_data"
          /\ op'.metric_name \notin DOMAIN health_metrics =>
              /\ op'.ret = <<>>
              /\ DOMAIN health_metrics' = DOMAIN health_metrics
              /\ health_metrics' = health_metrics]_vars

C7_Witness ==
    /\ op.name = "get_health_data"
    /\ op.metric_name \notin DOMAIN health_metrics
    /\ DOMAIN health_metrics # {}
    /\ op.ret = <<>>

\* C8: a non-numeric entry under "log activity" or "log metric" is caught:
\* the loop continues and no collection changes.
C8_ParseFailureReprompts ==
    [][op'.name = "menu" /\ op'.outcome = "ValueError" =>
          /\ pc' = "menu"
          /\ activities' = activities
          /\ health_metrics' = health_metrics]_vars

\* C9: every record dated D is counted in the bucket labelled with the first
\* Sunday on or after D, and the buckets are in strictly increasing order of
\* their labels.
C9_WeeksEndOnSunday ==
    Summed(op) =>
        LET rows == 1..Len(activities)
            labelled(s) ==
                {i \in rows : FirstSundayOnOrAfter(activities[i].Date.day) = s}
        IN  /\ \A k \in 1..(Len(op.ret) - 1) :
                  op.ret[k].Date.day < op.ret[k + 1].Date.day
            /\ \A i \in rows :
                  \E k \in 1..Len(op.ret) :
                      op.ret[k].Date.day
                          = FirstSundayOnOrAfter(activities[i].Date.day)
            /\ \A k \in 1..Len(op.ret) :
                 \A c \in {"DurationMin", "CaloriesBurned", "DistanceKM"} :
                    op.ret[k][c]
                      = Total(activities, labelled(op.ret[k].Date.day), c)

C9_Witness ==
    /\ Summed(op)
    /\ \E i, j \in 1..Len(activities), k \in 1..Len(op.ret) :
          /\ activities[i].Date.day % 7 = 6
          /\ activities[j].Date.day = activities[i].Date.day + 1
          /\ op.ret[k].Date.day = activities[i].Date.day
          /\ op.ret[k + 1].Date.day = activities[i].Date.day + 7
          /\ op.ret[k].DurationMin > 0

\* C10: once main_dashboard has logged its sample data, the activity
\* collection holds at least 3 records and "Weight_KG" at least 2 readings,
\* so the weekly summary is never taken of an empty collection and "No weight
\* data logged yet." is never printed.
C10_SampleDataStays ==
    pc # "start" =>
        /\ Len(activities) >= 3
        /\ "Weight_KG" \in DOMAIN health_metrics
        /\ Len(health_metrics["Weight_KG"]) >= 2
        /\ (op.name = "menu" /\ op.choice = "3") =>
              op.ret # <<>> /\ ~op.printed.value.nan
        /\ (op.name = "menu" /\ op.choice = "5") =>
              op.msg # "No weight data logged yet."

C10_Witness ==
    /\ pc = "menu"
    /\ op.name = "menu"
    /\ op.choice = "5"
    /\ Len(activities) = 4
    /\ activities[1].Date.kind = "Timestamp"

====
